---- MODULE Spec2Model ----
(***************************************************************************)
(* Model of app/quests/helpers.py: the quest win handler (process_start,   *)
(* process_win), the referral cascade (record_award_helper) and the        *)
(* leaderboard aggregation (generate_leaderboard).                         *)
(*                                                                         *)
(* Point values are kept exactly, as multiples of 1/Scale of a point       *)
(* (Python's true division by a power of two is exact on floats).          *)
(***************************************************************************)
EXTENDS Integers, Sequences, FiniteSets, TLC

VARIABLES
    referrer,       \* Profile.referrer                     (profile -> profile or NoProfile)
    DEBUG,          \* settings.DEBUG
    attempts,       \* QuestAttempt rows, pk = index        [quest, profile, success]
    awards,         \* QuestPointAward rows                 [questattempt, profile, value]
    coupons,        \* BulkTransferCoupon rows, pk = index  [token, tag, recipient]
    notifications,  \* messages delivered by send_notification_to_user
                    \*                       [to, cta_url, handle, quest, points]
    activities,     \* number of Activity rows
    pc,             \* "idle" | "cascade" (inside record_award_helper) | "lb" | "lbdone"
    frame,          \* arguments of the current record_award_helper call [qa, profile, layer]
    calls,          \* one entry per process_win call: what happened and how it ended
    lb_full,        \* first value returned by generate_leaderboard
    lb_hero,        \* second value returned by generate_leaderboard
    lb_max,         \* max_entries of the last generate_leaderboard call
    quota,          \* quest attempts that may still be started in this run
    faults          \* failures of external calls that may still happen in this run

vars == <<referrer, DEBUG, attempts, awards, coupons, notifications, activities,
          pc, frame, calls, lb_full, lb_hero, lb_max,
          quota, faults>>

-----------------------------------------------------------------------------
(* Data *)

Profiles == {"a", "b", "c"}
NoProfile == "none"
Quests == {"q1"}

\* quest.value, in points
QuestValue == [q \in Quests |-> 3]
\* quest.kudos_reward
kudos_reward == [q \in Quests |-> "t1"]

max_ref_depth == 4

\* bounds
MaxAttempts == 2
MaxFaults == 1
MaxLbAwards == 4

\* one point, in the unit the model stores values in
Scale == 2 ^ (max_ref_depth + 1)
\* cap on stored rows, never reached by the cascade as written
MaxAwards == (max_ref_depth + 2) * MaxAttempts

NoFrame == [qa |-> 0, profile |-> NoProfile, layer |-> 0]

\* inputs of the leaderboard runs: handles, point values, max_entries
LbProfiles == {"A", "B", "C", "D"}
LbValues == {(5 * Scale) \div 2, 5 * Scale, 10 * Scale}
LbMaxEntries == {2, 25}

-----------------------------------------------------------------------------
(* Helpers *)

RECURSIVE SumSeq(_)
SumSeq(s) == IF s = <<>> THEN 0 ELSE Head(s) + SumSeq(Tail(s))

-----------------------------------------------------------------------------
(* Queries on the stores *)

\* quest.is_beaten(user): some attempt of that user on the quest has success=True
is_beaten(q, u) ==
    \E i \in 1..Len(attempts) :
        attempts[i].quest = q /\ attempts[i].profile = u /\ attempts[i].success

\* get_active_attempt_if_any: the unsuccessful attempt of (profile, quest) with
\* the highest pk, 0 when there is none (order_by('-pk').first())
get_active_attempt_if_any(u, q) ==
    LET act == {i \in 1..Len(attempts) :
                    attempts[i].quest = q /\ attempts[i].profile = u
                    /\ ~attempts[i].success}
    IN IF act = {} THEN 0 ELSE CHOOSE i \in act : \A j \in act : j <= i

\* BulkTransferCoupon.objects.filter(token=..., tag='quest', metadata__recipient=...)
CouponsFor(tok, u) ==
    {i \in 1..Len(coupons) :
        coupons[i].token = tok /\ coupons[i].tag = "quest" /\ coupons[i].recipient = u}

\* btcs.first(): lowest pk
FirstCoupon(tok, u) == CHOOSE i \in CouponsFor(tok, u) : \A j \in CouponsFor(tok, u) : i <= j

NewCoupon(tok, u) == [token |-> tok, tag |-> "quest", recipient |-> u]

-----------------------------------------------------------------------------
(* Pieces of the handlers *)

\* the cascade run on every win, whether or not the quest was beaten before
first_time_beaten_always(q, u) == TRUE

\* first_time_beaten = not quest.is_beaten(request.user)
first_time_beaten(q, u) == ~is_beaten(q, u)

\* the halving applied once too often: quest.value / 2 ** layer
AwardValueHalvedEarly(q, layer) == (QuestValue[q] * Scale) \div (2 ^ layer)

\* value = qa.quest.value / (2 ** (layer - 1)), in 1/Scale points
AwardValue(q, layer) == (QuestValue[q] * Scale) \div (2 ^ (layer - 1))

\* the depth test off by one: a fifth layer is let through
DepthExceededLate(layer) == layer > max_ref_depth + 1

\* if layer > max_ref_depth: return
DepthExceeded(layer) == layer > max_ref_depth

\* the gate left out: the winner's own layer is served as well
CouponGateAlways(layer) == TRUE

\* if layer > 1 or settings.DEBUG: issue the coupon and notify
CouponGate(layer) == layer > 1 \/ DEBUG

\* the recursive call made without counting the layer
NextLayerStuck(layer) == layer

\* the recursive call is made with layer + 1
NextLayer(layer) == layer + 1

\* the award write wrapped like the activity write: its failure is logged
PropagatesButAward(kind) == kind \notin {"activity", "award"}

\* Which failing calls abort the caller.  Only Activity.objects.create sits
\* in a try/except; the award write, the coupon write and the notification
\* are called bare.
Propagates(kind) == kind # "activity"

\* record_quest_activity: the Activity row, unless its creation failed (logged)
RecordQuestActivity(ok) ==
    activities' = IF ok THEN activities + 1 ELSE activities

\* n external calls fail in this step, if the run's fault budget allows it
Fault(n) ==
    /\ n <= faults
    /\ faults' = faults - n

\* round(value, 2) as shown in the message, in hundredths of a point
Round2(x) ==
    LET q == (100 * x) \div Scale
        r == (100 * x) % Scale
    IN IF 2 * r < Scale THEN q
       ELSE IF 2 * r > Scale THEN q + 1
       ELSE IF q % 2 = 0 THEN q ELSE q + 1

LastCall == calls[Len(calls)]
SetLastCall(c) == [calls EXCEPT ![Len(calls)] = c]

-----------------------------------------------------------------------------
(* Operations *)

\* A run is explored in one of two regimes: up to MaxAttempts attempts with
\* every external call succeeding, or one attempt during which up to
\* MaxFaults external calls fail.
Regime ==
    \/ quota = MaxAttempts /\ faults = 0
    \/ quota = 1 /\ faults = MaxFaults

Init ==
    /\ referrer \in [Profiles -> Profiles \cup {NoProfile}]
    /\ DEBUG \in BOOLEAN
    /\ attempts = <<>>
    /\ awards = <<>>
    /\ coupons = <<>>
    /\ notifications = <<>>
    /\ activities = 0
    /\ pc = "idle"
    /\ frame = NoFrame
    /\ calls = <<>>
    /\ lb_full = <<>>
    /\ lb_hero = <<>>
    /\ lb_max = 0
    /\ Regime

\* process_start(request, quest)
ProcessStart ==
    \E u \in Profiles, q \in Quests, actOK \in BOOLEAN :
        /\ pc = "idle"
        /\ quota > 0
        /\ quota' = quota - 1
        /\ attempts' = Append(attempts, [quest |-> q, profile |-> u, success |-> FALSE])
        /\ RecordQuestActivity(actOK)
        /\ Fault(IF actOK THEN 0 ELSE 1)
        /\ UNCHANGED <<referrer, DEBUG, awards, coupons, notifications, pc, frame,
                       calls, lb_full, lb_hero, lb_max>>

\* process_win(request, qa) up to the call of record_award_helper; when the
\* cascade is not run this is the whole call.  qa is the caller's active attempt.
ProcessWin ==
    \E u \in Profiles, q \in Quests, actOK \in BOOLEAN, coupOK \in BOOLEAN :
        LET qa     == get_active_attempt_if_any(u, q)
            first  == first_time_beaten(q, u)
            tok    == kudos_reward[q]
            exists == CouponsFor(tok, u) # {}
            create == ~exists /\ coupOK
            raised == ~exists /\ ~coupOK /\ Propagates("coupon")
            btc    == IF exists THEN FirstCoupon(tok, u)
                      ELSE IF create THEN Len(coupons) + 1 ELSE 0
            call   == [qa |-> qa, profile |-> u, quest |-> q,
                       first_time_beaten |-> first, created |-> create,
                       btc |-> btc, cascaded |-> FALSE,
                       failures |-> (IF actOK THEN {} ELSE {"activity"})
                                    \cup (IF coupOK THEN {} ELSE {"coupon"}),
                       status |-> "raised", prize_url |-> 0]
        IN
        /\ pc = "idle"
        /\ qa # 0
        /\ exists => coupOK
        /\ RecordQuestActivity(actOK)
        /\ Fault((IF actOK THEN 0 ELSE 1) + (IF coupOK THEN 0 ELSE 1))
        /\ coupons' = IF create THEN Append(coupons, NewCoupon(tok, u)) ELSE coupons
        /\ IF raised
           THEN /\ calls' = Append(calls, call)
                /\ UNCHANGED <<attempts, pc, frame>>
           ELSE /\ attempts' = [attempts EXCEPT ![qa].success = TRUE]
                /\ IF first
                   THEN /\ pc' = "cascade"
                        /\ frame' = [qa |-> qa, profile |-> attempts[qa].profile, layer |-> 1]
                        /\ calls' = Append(calls, [call EXCEPT !.cascaded = TRUE,
                                                               !.status = "running"])
                   ELSE /\ calls' = Append(calls, [call EXCEPT !.status = "returned",
                                                               !.prize_url = btc])
                        /\ UNCHANGED <<pc, frame>>
        /\ UNCHANGED <<referrer, DEBUG, awards, notifications, lb_full, lb_hero, lb_max,
                       quota>>

\* One call of record_award_helper(qa, profile, layer).  fail names the call
\* inside it that raises, if any.
RecordAwardHelper ==
    \E fail \in {"none", "award", "coupon", "notify"} :
        LET qa      == frame.qa
            profile == frame.profile
            layer   == frame.layer
            quest   == attempts[qa].quest
            value   == AwardValue(quest, layer)
            gate    == CouponGate(layer)
            raisedA == fail = "award" /\ Propagates("award")
            raisedC == fail = "coupon" /\ Propagates("coupon")
            raisedN == fail = "notify" /\ Propagates("notify")
            raised  == raisedA \/ raisedC \/ raisedN
            mkAward == fail # "award"
            mkCoup  == gate /\ ~raisedA /\ fail # "coupon"
            mkNote  == mkCoup /\ fail # "notify"
            fails   == IF fail = "none" THEN LastCall.failures
                       ELSE LastCall.failures \cup {fail}
        IN
        /\ pc = "cascade"
        /\ IF DepthExceeded(layer)
           THEN /\ fail = "none"
                /\ pc' = "idle"
                /\ frame' = NoFrame
                /\ calls' = SetLastCall([LastCall EXCEPT !.status = "returned",
                                                         !.prize_url = LastCall.btc])
                /\ UNCHANGED <<awards, coupons, notifications, faults>>
           ELSE /\ Len(awards) < MaxAwards
                /\ fail \in {"coupon", "notify"} => gate
                /\ Fault(IF fail = "none" THEN 0 ELSE 1)
                /\ awards' = IF mkAward
                             THEN Append(awards, [questattempt |-> qa, profile |-> profile,
                                                  value |-> value])
                             ELSE awards
                /\ coupons' = IF mkCoup
                              THEN Append(coupons, NewCoupon(kudos_reward[quest], profile))
                              ELSE coupons
                /\ notifications' =
                       IF mkNote
                       THEN Append(notifications,
                                   [to |-> profile, cta_url |-> Len(coupons) + 1,
                                    handle |-> attempts[qa].profile, quest |-> quest,
                                    points |-> Round2(value)])
                       ELSE notifications
                /\ IF raised
                   THEN /\ pc' = "idle"
                        /\ frame' = NoFrame
                        /\ calls' = SetLastCall([LastCall EXCEPT !.status = "raised",
                                                                 !.failures = fails])
                   ELSE IF referrer[profile] # NoProfile
                   THEN /\ pc' = "cascade"
                        /\ frame' = [qa |-> qa, profile |-> referrer[profile],
                                     layer |-> NextLayer(layer)]
                        /\ calls' = SetLastCall([LastCall EXCEPT !.failures = fails])
                   ELSE /\ pc' = "idle"
                        /\ frame' = NoFrame
                        /\ calls' = SetLastCall([LastCall EXCEPT !.status = "returned",
                                                                 !.prize_url = LastCall.btc,
                                                                 !.failures = fails])
        /\ UNCHANGED <<referrer, DEBUG, attempts, activities, lb_full, lb_hero, lb_max,
                       quota>>

Next == ProcessStart \/ ProcessWin \/ RecordAwardHelper

Spec == Init /\ [][Next]_vars

\* the cascade is a chain of synchronous calls: a call that was made runs
LiveSpec == Init /\ [][Next]_vars /\ WF_vars(RecordAwardHelper)

-----------------------------------------------------------------------------
(* generate_leaderboard *)

\* leaderboard[key] += qpa.value, a new key entering the dict last
AddToBoard(board, qpa) ==
    IF \E i \in 1..Len(board) : board[i].handle = qpa.profile
    THEN [i \in 1..Len(board) |->
             IF board[i].handle = qpa.profile
             THEN [board[i] EXCEPT !.total = @ + qpa.value]
             ELSE board[i]]
    ELSE Append(board, [handle |-> qpa.profile, total |-> qpa.value])

RECURSIVE Totals(_, _)
\* the dict after the loop over the first n point awards
Totals(aw, n) == IF n = 0 THEN <<>> ELSE AddToBoard(Totals(aw, n - 1), aw[n])

\* e goes behind every item whose total is not smaller: equal totals keep
\* their order, as sorted(..., reverse=True) keeps them
InsertDesc(sorted, e) ==
    LET before == Cardinality({i \in 1..Len(sorted) : sorted[i].total >= e.total})
    IN SubSeq(sorted, 1, before) \o <<e>> \o SubSeq(sorted, before + 1, Len(sorted))

RECURSIVE SortedDesc(_, _)
\* sorted(leaderboard.items(), key=lambda x: x[1], reverse=True)
SortedDesc(board, n) ==
    IF n = 0 THEN <<>> ELSE InsertDesc(SortedDesc(board, n - 1), board[n])

\* display_pts = int(x) if not x % 1 else round(x, 1); tenths of a point
DisplayPts(x) ==
    IF x % Scale = 0
    THEN [int |-> TRUE, tenths |-> (x \div Scale) * 10]
    ELSE LET q == (10 * x) \div Scale
             r == (10 * x) % Scale
         IN [int |-> FALSE,
             tenths |-> IF 2 * r < Scale THEN q
                        ELSE IF 2 * r > Scale THEN q + 1
                        ELSE IF q % 2 = 0 THEN q ELSE q + 1]

\* reward_kudos.get(counter): the Token pk for ranks 1..3, 0 for None
reward_kudos(counter) ==
    IF counter = 1 THEN 621 ELSE IF counter = 2 THEN 618
    ELSE IF counter = 3 THEN 622 ELSE 0

\* this_ele = [ele[0], display_pts, kudii, reward_kudos_url, counter]; kudii,
\* read from the redemptions that nothing here writes, is left out
Entries(sorted) ==
    [c \in 1..Len(sorted) |->
        [handle |-> sorted[c].handle, display_pts |-> DisplayPts(sorted[c].total),
         reward_kudos |-> reward_kudos(c), counter |-> c]]

Take(l, n) == SubSeq(l, 1, IF n < Len(l) THEN n ELSE Len(l))

\* the podium built from two entrants on
PodiumReachedFromTwo(n) == ~(n < 2)

\* not (len(leaderboard) < 3)
PodiumReached(n) == ~(n < 3)

\* tmp = l[0]; l[0] = l[1]; l[1] = tmp
SwapTopTwo(l) == [l EXCEPT ![1] = l[2], ![2] = l[1]]

\* The list return_leaderboard after the hero block.  leaderboard_hero =
\* return_leaderboard binds the same list, so the swap is made in it.
AfterHeroBlock(rl) == IF PodiumReached(Len(rl)) THEN SwapTopTwo(rl) ELSE rl

\* leaderboard_hero as returned
Hero(rl) == IF PodiumReached(Len(rl)) THEN Take(SwapTopTwo(rl), 3) ELSE <<>>

\* return_leaderboard[:max_entries] as returned
Full(rl, max_entries) == Take(AfterHeroBlock(rl), max_entries)

Ranked(aw) ==
    LET board == Totals(aw, Len(aw))
    IN Entries(SortedDesc(board, Len(board)))

\* generate_leaderboard(max_entries)
GenerateLeaderboard ==
    \E max_entries \in LbMaxEntries :
        /\ pc = "lb"
        /\ lb_full' = Full(Ranked(awards), max_entries)
        /\ lb_hero' = Hero(Ranked(awards))
        /\ lb_max' = max_entries
        /\ pc' = "lbdone"
        /\ UNCHANGED <<referrer, DEBUG, attempts, awards, coupons, notifications,
                       activities, frame, calls, quota, faults>>

\* the point awards that can be in the table
AwardRows == [questattempt : {1}, profile : LbProfiles, value : LbValues]

\* up to MaxLbAwards rows, in the order the query returns them
LbInit ==
    /\ \E n \in 0..MaxLbAwards : awards \in [1..n -> AwardRows]
    /\ referrer = [p \in Profiles |-> NoProfile]
    /\ DEBUG = FALSE
    /\ attempts = <<>>
    /\ coupons = <<>>
    /\ notifications = <<>>
    /\ activities = 0
    /\ pc = "lb"
    /\ frame = NoFrame
    /\ calls = <<>>
    /\ lb_full = <<>>
    /\ lb_hero = <<>>
    /\ lb_max = 0
    /\ quota = 0
    /\ faults = 0

LbNext == GenerateLeaderboard

LbSpec == LbInit /\ [][LbNext]_vars

-----------------------------------------------------------------------------
(* Vocabulary of the properties *)

\* sum of the point awards of one handle
TotalOf(h) ==
    SumSeq([i \in 1..Len(awards) |-> IF awards[i].profile = h THEN awards[i].value ELSE 0])

Contributors == {awards[i].profile : i \in 1..Len(awards)}

RECURSIVE Walk(_, _)
\* the profile reached from p after k - 1 referrer links, NoProfile past the end
Walk(p, k) ==
    IF k = 1 THEN p
    ELSE LET prev == Walk(p, k - 1)
         IN IF prev = NoProfile THEN NoProfile ELSE referrer[prev]

\* layers 1..4 at which the referrer walk from p still stands on a profile
LayersOf(p) == {k \in 1..4 : Walk(p, k) # NoProfile}

\* distinct profiles reached from p by referrer links, p included
Reached(p) == {Walk(p, k) : k \in 1..(Cardinality(Profiles) + 1)} \ {NoProfile}

Min(x, y) == IF x < y THEN x ELSE y

\* the PointAward rows of one attempt, in creation order
AwardsOf(qa) == SelectSeq(awards, LAMBDA a : a.questattempt = qa)

AwardSum(qa) == SumSeq([i \in 1..Len(AwardsOf(qa)) |-> AwardsOf(qa)[i].value])

\* quest.value * (2 - 2^(1-n)) in 1/Scale points, n in 0..5
Geometric(v, n) == IF n = 0 THEN 0 ELSE v * (2 * Scale - (2 * Scale) \div (2 ^ n))

CallIds == 1..Len(calls)
\* process_win calls whose cascade ran and returned normally
CascadesReturned == {i \in CallIds : calls[i].cascaded /\ calls[i].status = "returned"}

TypeOK ==
    /\ pc \in {"idle", "cascade"}
    /\ Len(attempts) <= MaxAttempts
    /\ Len(awards) < MaxAwards
    /\ quota >= 0 /\ faults >= 0

-----------------------------------------------------------------------------
(* Properties *)

\* C1: there is at most one coupon tagged 'quest' for each (quest kudos token,
\* recipient profile) pair, whatever process_win and cascade calls have run.
C1_OneCouponPerPair ==
    \A q \in Quests, u \in Profiles : Cardinality(CouponsFor(kudos_reward[q], u)) <= 1

\* C3: a notification that raises does not abort the cascade: the call of
\* process_win is not ended by the exception, and once the cascade is over the
\* attempt has its PointAward for every layer of the referrer walk up to 4.
C3_NotificationFailureIgnored ==
    \A i \in CallIds :
        "notify" \in calls[i].failures =>
            /\ calls[i].status # "raised"
            /\ calls[i].status = "returned" =>
                   Len(AwardsOf(calls[i].qa)) = Cardinality(LayersOf(calls[i].profile))

\* C4, as claimed: for a cascade that returned, the sum of the attempt's
\* PointAward values is quest.value * (2 - 2^(1 - min(chainLength, 4))), with
\* chainLength the number of profiles reached from the winner, winner included.
C4_SumByProfilesReached ==
    \A i \in CascadesReturned :
        AwardSum(calls[i].qa) =
            Geometric(QuestValue[calls[i].quest],
                      Min(Cardinality(Reached(calls[i].profile)), 4))

\* C4, amended: the sum of the PointAward values of an attempt is
\* quest.value * (2 - 2^(1 - n)), n the number of awards created, the k-th
\* award being quest.value / 2^(k-1); the sum is below 2 * quest.value; and a
\* cascade that returned created one award per layer of the referrer walk up
\* to layer 4, a profile met again on a cycle counting again.
C4_SumByLayersVisited ==
    \A qa \in 1..Len(attempts) :
        LET v == QuestValue[attempts[qa].quest]
            n == Len(AwardsOf(qa))
        IN /\ AwardSum(qa) = Geometric(v, n)
           /\ AwardSum(qa) < 2 * v * Scale
           /\ \A k \in 1..n : AwardsOf(qa)[k].value * (2 ^ (k - 1)) = v * Scale
           /\ \A i \in CascadesReturned :
                  calls[i].qa = qa => n = Cardinality(LayersOf(attempts[qa].profile))

C4_Witness ==
    \E i \in CascadesReturned :
        /\ Len(AwardsOf(calls[i].qa)) = 4
        /\ Cardinality(Reached(calls[i].profile)) = 2

\* C5: no quest attempt ever has more than 4 PointAward records.
C5_AtMostFourAwards ==
    \A qa \in 1..Len(attempts) : Len(AwardsOf(qa)) <= 4

C5_Witness ==
    \E i \in CascadesReturned :
        /\ Len(AwardsOf(calls[i].qa)) = 4
        /\ Walk(calls[i].profile, 5) # NoProfile

\* C6: every call of record_award_helper comes to an end: a running cascade
\* always gets back to the caller, on every referrer graph, cycles included.
C6_CascadeTerminates == (pc = "cascade") ~> (pc = "idle")

\* a cascade on a referral cycle of length 2 has returned
C6_Witness ==
    \E i \in CascadesReturned :
        /\ Walk(calls[i].profile, 3) = calls[i].profile
        /\ Walk(calls[i].profile, 2) # calls[i].profile
        /\ pc = "idle"

\* C8: a failed PointAward write or coupon creation ends the process_win call
\* with the exception: such a call never returns a prize URL.
C8_WriteFailurePropagates ==
    \A i \in CallIds :
        calls[i].failures \cap {"award", "coupon"} # {} =>
            /\ calls[i].status # "returned"
            /\ calls[i].prize_url = 0
            /\ pc = "idle" => calls[i].status = "raised"

\* a PointAward write failed at a referrer's layer and the call was aborted
C8_Witness ==
    \E i \in CallIds :
        /\ "award" \in calls[i].failures
        /\ calls[i].status = "raised"
        /\ Len(AwardsOf(calls[i].qa)) >= 1

\* notifications of the cascade of call i that report the value of layer k
NotesOf(i, k) ==
    {j \in 1..Len(notifications) :
        /\ notifications[j].handle = calls[i].profile
        /\ notifications[j].quest = calls[i].quest
        /\ notifications[j].points =
               Round2((QuestValue[calls[i].quest] * Scale) \div (2 ^ (k - 1)))}

\* C9: a cascade that returned gave every visited layer 1..4 a PointAward for
\* the profile visited there, and a coupon with a notification to exactly the
\* visited layers above 1 (outside debug) or to every visited layer (debug);
\* each notification links a coupon of its own, made out to the notified
\* profile for the quest's token; no coupon or notification exists beyond those
\* and the coupons process_win created itself; layer 1 never gets a coupon
\* outside debug, whether or not the cascade returned.
C9_CouponsForReferrersOnly ==
    /\ \A i \in CascadesReturned :
           LET p == calls[i].profile
               aw == AwardsOf(calls[i].qa)
           IN /\ Len(aw) = Cardinality(LayersOf(p))
              /\ \A k \in LayersOf(p) :
                     /\ aw[k].profile = Walk(p, k)
                     /\ Cardinality(NotesOf(i, k)) = IF k > 1 \/ DEBUG THEN 1 ELSE 0
                     /\ \A j \in NotesOf(i, k) :
                            /\ notifications[j].to = Walk(p, k)
                            /\ notifications[j].cta_url \in
                                   CouponsFor(kudos_reward[calls[i].quest], Walk(p, k))
    /\ \A i \in CallIds : ~DEBUG => NotesOf(i, 1) = {}
    /\ \A j1, j2 \in 1..Len(notifications) :
           j1 # j2 => notifications[j1].cta_url # notifications[j2].cta_url
    /\ \A j \in 1..Len(notifications) :
           \E i \in CallIds, k \in 1..4 : calls[i].cascaded /\ j \in NotesOf(i, k)
    /\ (\A i \in CallIds : calls[i].failures \subseteq {"activity"}
                             /\ calls[i].status = "returned") =>
           Len(coupons) = Cardinality({i \in CallIds : calls[i].created}) + Len(notifications)

\* outside debug a cascade over three layers or more has returned
C9_Witness ==
    /\ ~DEBUG
    /\ \E i \in CascadesReturned :
           /\ Cardinality(LayersOf(calls[i].profile)) >= 3
           /\ Walk(calls[i].profile, 2) # calls[i].profile
           /\ Len(notifications) >= 2

\* C10: over the process_win calls of one user on one quest the cascade runs
\* at most once, so all point awards of that (user, quest) belong to a single
\* attempt; every call that came back returned a prize URL, the coupon of that
\* user for the quest's token, and left its attempt with success=True; a call
\* during which nothing but the activity write failed comes back, whether or
\* not it ran the cascade.
C10_CascadeOncePerUserAndQuest ==
    /\ \A u \in Profiles, q \in Quests :
           Cardinality({i \in CallIds : /\ calls[i].profile = u
                                         /\ calls[i].quest = q
                                         /\ calls[i].cascaded}) <= 1
    /\ \A x, y \in 1..Len(awards) :
           LET ax == attempts[awards[x].questattempt]
               ay == attempts[awards[y].questattempt]
           IN (ax.profile = ay.profile /\ ax.quest = ay.quest) =>
                  awards[x].questattempt = awards[y].questattempt
    /\ \A i \in CallIds :
           /\ calls[i].status = "returned" =>
                  /\ attempts[calls[i].qa].success
                  /\ calls[i].prize_url \in
                         CouponsFor(kudos_reward[calls[i].quest], calls[i].profile)
           /\ calls[i].cascaded => attempts[calls[i].qa].success
           /\ (calls[i].failures \subseteq {"activity"} /\ (pc = "idle" \/ i < Len(calls))) =>
                  calls[i].status = "returned"

\* the same user has won the same quest twice; the second win ran no cascade
C10_Witness ==
    \E i, j \in CallIds :
        /\ i < j
        /\ calls[i].profile = calls[j].profile
        /\ calls[i].quest = calls[j].quest
        /\ calls[i].qa # calls[j].qa
        /\ calls[i].cascaded /\ ~calls[j].cascaded
        /\ calls[i].status = "returned" /\ calls[j].status = "returned"
        /\ Len(awards) >= 2

\* C2: with at least 3 contributors and max_entries >= 3 the hero list is
\* [rank2, rank1, rank3] by aggregated value and the first 3 entries of the
\* full list are the same three in descending order of aggregated value.
C2_HeroSwappedFullInOrder ==
    (pc = "lbdone" /\ Cardinality(Contributors) >= 3 /\ lb_max >= 3) =>
        /\ Len(lb_hero) = 3
        /\ TotalOf(lb_hero[2].handle) >= TotalOf(lb_hero[1].handle)
        /\ TotalOf(lb_hero[1].handle) >= TotalOf(lb_hero[3].handle)
        /\ \A h \in Contributors \ {lb_hero[k].handle : k \in 1..3} :
               TotalOf(lb_hero[3].handle) >= TotalOf(h)
        /\ Len(lb_full) >= 3
        /\ {lb_full[k].handle : k \in 1..3} = {lb_hero[k].handle : k \in 1..3}
        /\ TotalOf(lb_full[1].handle) >= TotalOf(lb_full[2].handle)
        /\ TotalOf(lb_full[2].handle) >= TotalOf(lb_full[3].handle)

\* C7: with fewer than 3 contributors and the default max_entries the hero
\* list is empty and the full list has one entry per contributing profile,
\* showing that profile's total.
C7_NoPodiumBelowThree ==
    (pc = "lbdone" /\ Cardinality(Contributors) < 3 /\ lb_max = 25) =>
        /\ lb_hero = <<>>
        /\ Len(lb_full) = Cardinality(Contributors)
        /\ {lb_full[k].handle : k \in 1..Len(lb_full)} = Contributors
        /\ \A k \in 1..Len(lb_full) :
               lb_full[k].display_pts.tenths * Scale = 10 * TotalOf(lb_full[k].handle)

\* two profiles contributed three awards or more and the board was built
C7_Witness ==
    /\ pc = "lbdone"
    /\ lb_max = 25
    /\ Cardinality(Contributors) = 2
    /\ Len(awards) >= 3
    /\ Len(lb_full) = 2

====
